---- MODULE Spec2Model ----
(***************************************************************************)
(* Model of src/src/MPC.cpp: the file-scope configuration (N, dt, Lf, the  *)
(* reference targets and the block offsets), the evaluator                 *)
(* FG_eval::operator() and MPC::Solve around the external Ipopt solver.    *)
(*                                                                         *)
(* Vectors are functions on 0..n-1, as the code indexes them.  A double is *)
(* an integer where the code only adds and multiplies integers (the cost,  *)
(* the constraint bounds), a rational <<num, den>> where it divides (dt,   *)
(* Lf), and a constraint entry is the expression the AD<double> operations *)
(* of lines 131-151 record, over the decision variables.                   *)
(***************************************************************************)
EXTENDS Integers, Sequences, FiniteSets, TLC

VARIABLES N, dt, ref_cte, ref_epsi, ref_v,
          x_start, y_start, psi_start, v_start, cte_start, epsi_start,
          delta_start, a_start,
          pc, state, coeffs, problem, eval, solution, ok, result,
          prev, calls

config == <<N, dt, ref_cte, ref_epsi, ref_v,
            x_start, y_start, psi_start, v_start, cte_start, epsi_start,
            delta_start, a_start>>

vars == <<N, dt, ref_cte, ref_epsi, ref_v,
          x_start, y_start, psi_start, v_start, cte_start, epsi_start,
          delta_start, a_start,
          pc, state, coeffs, problem, eval, solution, ok, result,
          prev, calls>>

----------------------------------------------------------------------------
(* Bounds of the model.                                                    *)

\* Horizon lengths 0..MaxN are explored next to the configured one.
MaxN == 3

\* Number of Solve calls of one run.
MaxCalls == 2

\* size_t is modelled SizeBits wide (the model checker's integers are 32
\* bits wide); every in-range index of the model is far below 2^SizeBits, so
\* only a wrapped value ever reaches this size.
SizeBits == 24

----------------------------------------------------------------------------
(* Program constants.                                                      *)

\* size_t N = 10
DefaultN == 10

\* double ref_v = 130
DefaultRefV == 130

\* double max_degrees = 25
max_degrees == 25

\* The weights of the objective.
cte_w == 1500

epsi_w == 2000

v_w == 1

actuator_w == 10

change_steer_w == 1000

change_accel_w == 10

\* const double Lf = 2.67
Lf == <<267, 100>>

\* double dt = 0.1
DefaultDt == <<1, 10>>

----------------------------------------------------------------------------
(* size_t arithmetic.                                                      *)

SizeMod == 2 ^ SizeBits

SzAdd(a, b) == (a + b) % SizeMod

SzSub(a, b) == (a - b) % SizeMod

SzMul(a, b) == (a * b) % SizeMod

\* A zero-based vector from a sequence.
Vec(s) == [i \in 0 .. Len(s) - 1 |-> s[i + 1]]

\* The length of a zero-based vector.
Size(v) == Cardinality(DOMAIN v)

\* new[] of a vector of n doubles fails beyond the address space: a wrapped
\* n_vars (N = 0) is such a size.
AllocFails(n) == n >= SizeMod \div 2

----------------------------------------------------------------------------
(* The numbers Solve writes into the variable bounds.  unit names the      *)
(* quantity and k its multiple: k * numeric_limits<float>::max(),          *)
(* k * M_PI / 180 (k degrees in radians), k * 1.0; a vector element that   *)
(* was never assigned is Unassigned.                                       *)

Unassigned == [unit |-> "unassigned", k |-> 0]

FloatMax(k) == [unit |-> "float_max", k |-> k]

max_radians == [unit |-> "pi/180", k |-> max_degrees]

Neg(q) == [unit |-> q.unit, k |-> 0 - q.k]

One(k) == [unit |-> "1.0", k |-> k]

----------------------------------------------------------------------------
(* Rational numbers <<num, den>>, den > 0, for dt, Lf and what is computed *)
(* from them.                                                              *)

Rat(i) == <<i, 1>>

RatNorm(q) == IF q[2] < 0 THEN <<0 - q[1], 0 - q[2]>> ELSE q

RatAdd(p, q) == <<p[1] * q[2] + q[1] * p[2], p[2] * q[2]>>

RatSub(p, q) == <<p[1] * q[2] - q[1] * p[2], p[2] * q[2]>>

RatMul(p, q) == <<p[1] * q[1], p[2] * q[2]>>

RatDiv(p, q) == RatNorm(<<p[1] * q[2], p[2] * q[1]>>)

RatEq(p, q) == p[1] * q[2] = q[1] * p[2]

----------------------------------------------------------------------------
(* AD<double> expressions: what the overloaded operators of lines 112-151  *)
(* record.  Var(i) is vars[i]; Const(q) is a double.                       *)

Var(i) == <<"var", i>>

Const(q) == <<"const", q>>

Add(a, b) == <<"add", a, b>>

Sub(a, b) == <<"sub", a, b>>

Mul(a, b) == <<"mul", a, b>>

Div(a, b) == <<"div", a, b>>

Cos(a) == <<"cos", a>>

Sin(a) == <<"sin", a>>

Atan(a) == <<"atan", a>>

\* The decision variables an expression depends on.
RECURSIVE TermVars(_)
TermVars(e) ==
  CASE e[1] = "var" -> {e[2]}
    [] e[1] = "const" -> {}
    [] e[1] \in {"cos", "sin", "atan"} -> TermVars(e[2])
    [] OTHER -> TermVars(e[2]) \cup TermVars(e[3])

\* The value of an expression of +, -, *, / at the point v (the heading and
\* speed entries of lines 148-149 are such expressions).
RECURSIVE Value(_, _)
Value(e, v) ==
  CASE e[1] = "var" -> Rat(v[e[2]])
    [] e[1] = "const" -> e[2]
    [] e[1] = "add" -> RatAdd(Value(e[2], v), Value(e[3], v))
    [] e[1] = "sub" -> RatSub(Value(e[2], v), Value(e[3], v))
    [] e[1] = "mul" -> RatMul(Value(e[2], v), Value(e[3], v))
    [] e[1] = "div" -> RatDiv(Value(e[2], v), Value(e[3], v))

----------------------------------------------------------------------------
(* FG_eval::operator()(fg, vars), lines 50-153.  The evaluator keeps, next *)
(* to fg, what it did: the (block, index) pairs of vars it read, how often *)
(* it assigned each fg entry, and whether a read left its vector.          *)

Sq(a) == a * a

InRange(v, I) == I \subseteq DOMAIN v

\* What a read of vars[i], i \in I, past the end of vars leaves behind.
PastEnd(acc, v, I) == [acc EXCEPT !.ub = TRUE, !.oob = I \ DOMAIN v]

\* The evaluator without line 58.
KeepCost(fg) == fg

\* Line 58: fg[0] = 0.
ResetCost(fg) == [fg EXCEPT ![0] = 0]

\* Lines 70-75: for (t = 0; t < N; ++t) fg[0] += ...
RECURSIVE ReferenceStateCost(_, _, _)
ReferenceStateCost(v, t, acc) ==
  IF t >= N THEN acc
  ELSE IF ~InRange(v, {cte_start + t, epsi_start + t, v_start + t})
       THEN PastEnd(acc, v, {cte_start + t, epsi_start + t, v_start + t})
  ELSE ReferenceStateCost(v, t + 1,
         [acc EXCEPT
            !.cost = @ + cte_w * Sq(v[cte_start + t] - ref_cte)
                       + epsi_w * Sq(v[epsi_start + t] - ref_epsi)
                       + v_w * Sq(v[v_start + t] - ref_v),
            !.reads = @ \cup {<<"cte", cte_start + t>>, <<"epsi", epsi_start + t>>,
                              <<"v", v_start + t>>}])

\* Lines 80-83: for (t = 0; t < N - 1; ++t) fg[0] += ...
RECURSIVE ActuatorCost(_, _, _)
ActuatorCost(v, t, acc) ==
  IF t >= SzSub(N, 1) THEN acc
  ELSE IF ~InRange(v, {delta_start + t, a_start + t})
       THEN PastEnd(acc, v, {delta_start + t, a_start + t})
  ELSE ActuatorCost(v, t + 1,
         [acc EXCEPT
            !.cost = @ + actuator_w * Sq(v[delta_start + t])
                       + actuator_w * Sq(v[a_start + t]),
            !.reads = @ \cup {<<"delta", delta_start + t>>, <<"a", a_start + t>>}])

\* Lines 88-91: for (t = 0; t < N - 2; ++t) fg[0] += ...
\* N - 2 is a size_t subtraction.
RECURSIVE ChangeCost(_, _, _)
ChangeCost(v, t, acc) ==
  IF t >= SzSub(N, 2) THEN acc
  ELSE IF ~InRange(v, {delta_start + t + 1, delta_start + t,
                       a_start + t + 1, a_start + t})
       THEN PastEnd([acc EXCEPT !.change_iters = t + 1], v,
                    {delta_start + t + 1, delta_start + t, a_start + t + 1, a_start + t})
  ELSE ChangeCost(v, t + 1,
         [acc EXCEPT
            !.cost = @ + change_steer_w * Sq(v[delta_start + t + 1] - v[delta_start + t])
                       + change_accel_w * Sq(v[a_start + t + 1] - v[a_start + t]),
            !.change_iters = t + 1,
            !.reads = @ \cup {<<"delta", delta_start + t + 1>>, <<"delta", delta_start + t>>,
                              <<"a", a_start + t + 1>>, <<"a", a_start + t>>}])

\* Lines 58-91: the cost.
Cost(fg, v) ==
  LET c0 == [cost |-> ResetCost(fg)[0], reads |-> {}, ub |-> FALSE, oob |-> {},
             change_iters |-> 0]
      c1 == ReferenceStateCost(v, 0, c0)
      c2 == IF c1.ub THEN c1 ELSE ActuatorCost(v, 0, c1)
      c3 == IF c2.ub THEN c2 ELSE ChangeCost(v, 0, c2)
  IN  c3

\* Lines 131, 133: coeffs[k].  An index past the end of coeffs reads the
\* double g that lies behind the buffer.
Coeff(cf, k, g) == IF k \in DOMAIN cf THEN Const(Rat(cf[k])) ELSE Const(Rat(g))

\* The indices of coeffs lines 131 and 133 read.
CoeffsRead == {0, 1, 2, 3}

\* Line 131.
f0(cf, g, x0) ==
  Add(Add(Add(Coeff(cf, 0, g), Mul(Coeff(cf, 1, g), x0)),
          Mul(Mul(Coeff(cf, 2, g), x0), x0)),
      Mul(Mul(Mul(Coeff(cf, 3, g), x0), x0), x0))

\* Line 133.
psides0(cf, g, x0) ==
  Atan(Add(Add(Coeff(cf, 1, g), Mul(Mul(Const(Rat(2)), Coeff(cf, 2, g)), x0)),
           Mul(Mul(Mul(Const(Rat(3)), Coeff(cf, 3, g)), x0), x0)))

\* fg[i] = e.
Assign(acc, i, e) == [acc EXCEPT !.fg[i] = e, !.writes[i] = @ + 1]

\* Line 148 with the sign of the commented model equation of line 141.
PsiResidualPlus(psi1, psi0, v0, delta0) ==
  Sub(psi1, Add(psi0, Mul(Div(Mul(v0, delta0), Const(Lf)), Const(dt))))

\* Line 148.
PsiResidual(psi1, psi0, v0, delta0) ==
  Sub(psi1, Sub(psi0, Mul(Div(Mul(v0, delta0), Const(Lf)), Const(dt))))

\* Lines 100-105.
InitialConstraints(v, acc) ==
  LET I == {x_start, y_start, psi_start, v_start, cte_start, epsi_start}
      a1 == Assign(acc, 1 + x_start, Var(x_start))
      a2 == Assign(a1, 1 + y_start, Var(y_start))
      a3 == Assign(a2, 1 + psi_start, Var(psi_start))
      a4 == Assign(a3, 1 + v_start, Var(v_start))
      a5 == Assign(a4, 1 + cte_start, Var(cte_start))
      a6 == Assign(a5, 1 + epsi_start, Var(epsi_start))
  IN  IF ~InRange(v, I) THEN PastEnd(acc, v, I)
      ELSE [a6 EXCEPT !.reads = @ \cup {<<"x", x_start>>, <<"y", y_start>>,
                                        <<"psi", psi_start>>, <<"v", v_start>>,
                                        <<"cte", cte_start>>, <<"epsi", epsi_start>>}]

\* Lines 112-129: the elements of vars iteration t reads, by block.
StepReads(t) ==
  {<<"x", x_start + t - 1>>, <<"y", y_start + t - 1>>, <<"psi", psi_start + t - 1>>,
   <<"v", v_start + t - 1>>, <<"cte", cte_start + t - 1>>, <<"epsi", epsi_start + t - 1>>,
   <<"x", x_start + t>>, <<"y", y_start + t>>, <<"psi", psi_start + t>>,
   <<"v", v_start + t>>, <<"cte", cte_start + t>>, <<"epsi", epsi_start + t>>,
   <<"delta", delta_start + t - 1>>, <<"a", a_start + t - 1>>}

\* Lines 108-152: for (t = 1; t < N; ++t) ...
RECURSIVE ModelConstraints(_, _, _, _, _)
ModelConstraints(v, cf, g, t, acc) ==
  IF t >= N THEN acc
  ELSE IF ~InRange(v, {r[2] : r \in StepReads(t)})
       THEN PastEnd(acc, v, {r[2] : r \in StepReads(t)})
  ELSE
    LET x0 == Var(x_start + t - 1)
        y0 == Var(y_start + t - 1)
        psi0 == Var(psi_start + t - 1)
        v0 == Var(v_start + t - 1)
        cte0 == Var(cte_start + t - 1)
        epsi0 == Var(epsi_start + t - 1)
        x1 == Var(x_start + t)
        y1 == Var(y_start + t)
        psi1 == Var(psi_start + t)
        v1 == Var(v_start + t)
        cte1 == Var(cte_start + t)
        epsi1 == Var(epsi_start + t)
        delta0 == Var(delta_start + t - 1)
        a0 == Var(a_start + t - 1)
        r0 == [acc EXCEPT !.reads = @ \cup StepReads(t),
                          !.coeff_oob = @ \cup (CoeffsRead \ DOMAIN cf)]
        r1 == Assign(r0, 1 + x_start + t,
                     Sub(x1, Add(x0, Mul(Mul(v0, Cos(psi0)), Const(dt)))))
        r2 == Assign(r1, 1 + y_start + t,
                     Sub(y1, Add(y0, Mul(Mul(v0, Sin(psi0)), Const(dt)))))
        r3 == Assign(r2, 1 + psi_start + t, PsiResidual(psi1, psi0, v0, delta0))
        r4 == Assign(r3, 1 + v_start + t, Sub(v1, Add(v0, Mul(a0, Const(dt)))))
        r5 == Assign(r4, 1 + cte_start + t,
                     Sub(cte1, Add(Sub(f0(cf, g, x0), y0),
                                   Mul(Mul(v0, Sin(epsi0)), Const(dt)))))
        r6 == Assign(r5, 1 + epsi_start + t,
                     Sub(epsi1, Sub(Sub(psi0, psides0(cf, g, x0)),
                                    Mul(Div(Mul(v0, delta0), Const(Lf)), Const(dt)))))
    IN  ModelConstraints(v, cf, g, t + 1, r6)

\* Lines 58-105: the cost and the initial constraints.
UpToInitialConstraints(fg, v) ==
  LET c == Cost(fg, v)
      e0 == [fg |-> [fg EXCEPT ![0] = c.cost],
             writes |-> [i \in DOMAIN fg |-> 0],
             reads |-> c.reads, ub |-> c.ub, oob |-> c.oob,
             coeff_oob |-> {}, change_iters |-> c.change_iters]
  IN  IF e0.ub THEN e0 ELSE InitialConstraints(v, e0)

\* FG_eval::operator()(fg, vars) of the evaluator built from coeffs cf, where
\* reads past the end of coeffs yield g.
FG_eval(fg, v, cf, g) ==
  LET e1 == UpToInitialConstraints(fg, v)
  IN  IF e1.ub THEN e1 ELSE ModelConstraints(v, cf, g, 1, e1)

----------------------------------------------------------------------------
(* MPC::Solve(state, coeffs), lines 162-305, up to the call of the solver. *)

\* Line 178: size_t n_vars = N * 6 + (N - 1) * 2.
n_vars == SzAdd(SzMul(N, 6), SzMul(SzSub(N, 1), 2))

\* Line 181: size_t n_constraints = N * 6.
n_constraints == SzMul(N, 6)

\* Lines 185-188: Dvector vars(n_vars), every element set to 0.0.
InitialGuess(n) == [i \in 0 .. n - 1 |-> 0]

\* for (i = lo; i < hi; ++i) { lower[i] = l; upper[i] = u; }
SetBounds(b, lo, hi, l, u) ==
  [lower |-> [i \in DOMAIN b.lower |-> IF lo <= i /\ i < hi THEN l ELSE b.lower[i]],
   upper |-> [i \in DOMAIN b.upper |-> IF lo <= i /\ i < hi THEN u ELSE b.upper[i]],
   assigned |-> [i \in DOMAIN b.assigned |->
                   IF lo <= i /\ i < hi THEN b.assigned[i] + 1 ELSE b.assigned[i]]]

\* The acceleration loop of line 219 begun at delta_start.
VariableBoundsActuatorsAlike(n) ==
  LET b0 == [lower |-> [i \in 0 .. n - 1 |-> Unassigned],
             upper |-> [i \in 0 .. n - 1 |-> Unassigned],
             assigned |-> [i \in 0 .. n - 1 |-> 0]]
      b1 == SetBounds(b0, 0, delta_start, FloatMax(-1), FloatMax(1))
      b2 == SetBounds(b1, delta_start, a_start, Neg(max_radians), max_radians)
      b3 == SetBounds(b2, delta_start, n, One(-1), One(1))
  IN  b3

\* Lines 191-222: vars_lowerbound and vars_upperbound, with the number of
\* times each index was assigned.
VariableBounds(n) ==
  LET b0 == [lower |-> [i \in 0 .. n - 1 |-> Unassigned],
             upper |-> [i \in 0 .. n - 1 |-> Unassigned],
             assigned |-> [i \in 0 .. n - 1 |-> 0]]
      b1 == SetBounds(b0, 0, delta_start, FloatMax(-1), FloatMax(1))
      b2 == SetBounds(b1, delta_start, a_start, Neg(max_radians), max_radians)
      b3 == SetBounds(b2, a_start, n, One(-1), One(1))
  IN  b3

\* Lines 234-239 and 241-246: the six elements pinned to the state.
Pinned(c, st) ==
  LET p1 == [c EXCEPT ![x_start] = st[0]]
      p2 == [p1 EXCEPT ![y_start] = st[1]]
      p3 == [p2 EXCEPT ![psi_start] = st[2]]
      p4 == [p3 EXCEPT ![v_start] = st[3]]
      p5 == [p4 EXCEPT ![cte_start] = st[4]]
      p6 == [p5 EXCEPT ![epsi_start] = st[5]]
  IN  p6

\* Lines 225-239: constraints_lowerbound.
ConstraintsLowerbound(n, st) == Pinned([i \in 0 .. n - 1 |-> 0], st)

\* constraints_upperbound without lines 241-246.
ConstraintsUpperboundAllZero(n, st) == [i \in 0 .. n - 1 |-> 0]

\* Lines 226-246: constraints_upperbound.
ConstraintsUpperbound(n, st) == Pinned([i \in 0 .. n - 1 |-> 0], st)

\* Lines 256-268: the options string.
Options == <<"Integer print_level  0", "Sparse  true        forward",
             "Sparse  true        reverse", "Numeric max_cpu_time          0.5">>

\* Lines 279-281: the arguments of CppAD::ipopt::solve.
Problem(st, cf) ==
  LET b == VariableBounds(n_vars)
  IN  [options |-> Options,
       vars |-> InitialGuess(n_vars),
       vars_lowerbound |-> b.lower,
       vars_upperbound |-> b.upper,
       assigned |-> b.assigned,
       constraints_lowerbound |-> ConstraintsLowerbound(n_constraints, st),
       constraints_upperbound |-> ConstraintsUpperbound(n_constraints, st),
       fg_eval |-> cf]

\* The loop of lines 299-302 without the + 1: it begins at the pinned point.
RECURSIVE TrajectoryFromStart(_, _)
TrajectoryFromStart(x, i) ==
  IF i >= SzSub(N, 1) THEN <<>>
  ELSE <<x[x_start + i], x[y_start + i]>> \o TrajectoryFromStart(x, i + 1)

\* Lines 299-302: the (x, y) pairs pushed for i = from .. N - 2.
RECURSIVE Trajectory(_, _)
Trajectory(x, i) ==
  IF i >= SzSub(N, 1) THEN <<>>
  ELSE <<x[x_start + i + 1], x[y_start + i + 1]>> \o Trajectory(x, i + 1)

\* Lines 294-304: the vector Solve returns for the solver's vector x.
Result(x) == <<x[delta_start], x[a_start]>> \o Trajectory(x, 0)

\* Line 284: ok &= solution.status == success.
Ok(o, status) == o /\ status = "success"

----------------------------------------------------------------------------
(* The inputs and the solver's answers that are explored.                  *)

\* Horizon lengths: N is a file-scope variable set at line 16.
Horizons == (0 .. MaxN) \cup {DefaultN}

\* Time steps: dt is a file-scope variable set at line 18.
TimeSteps == {DefaultDt, <<0, 1>>, <<-1, 10>>}

\* Vehicle states (x, y, psi, v, cte, epsi).
States == {Vec(<<1, 2, 3, 4, 5, 6>>), Vec(<<0, -1, 0, 130, -1, 0>>)}

\* Path polynomials of 4, 3 and 5 coefficients.
Polynomials == {Vec(<<1, 2, 3, 4>>), Vec(<<1, 2, 3>>), Vec(<<1, 2, 3, 4, 5>>)}

\* The statuses of solve_result: success, an infeasible problem, and unknown,
\* which stands for every other one.
Statuses == {"success", "local_infeasibility", "unknown"}

\* Solution vectors of length n; the first has a different value at every index.
SolutionPoints(n) == {[i \in 0 .. n - 1 |-> i + 1], [i \in 0 .. n - 1 |-> 50 - 2 * i]}

\* Points at which the solver evaluates fg_eval.
TrialPoints(n) == {[i \in 0 .. n - 1 |-> i + 1], [i \in 0 .. n - 1 |-> ((i * i) % 5) - 2]}

\* What fg holds when the solver passes it to the evaluator.
FgBefore(n, junk) == [i \in 0 .. n |-> IF i = 0 THEN junk ELSE Const(Rat(junk))]

JunkValues == {7}

\* Doubles that may lie behind the buffer of coeffs.
GarbageValues == {9, -9}

----------------------------------------------------------------------------
(* The state machine.                                                      *)

NoProblem ==
  [options |-> <<>>, vars |-> <<>>, vars_lowerbound |-> <<>>, vars_upperbound |-> <<>>,
   assigned |-> <<>>, constraints_lowerbound |-> <<>>, constraints_upperbound |-> <<>>,
   fg_eval |-> <<>>]

NoEval ==
  [called |-> FALSE, before |-> 0, vars |-> <<>>, fg |-> <<>>, writes |-> <<>>,
   reads |-> {}, ub |-> FALSE, oob |-> {}, coeff_oob |-> {}, change_iters |-> 0]

NoSolution == [status |-> "not_defined", x |-> <<>>]

NoCall == [state |-> <<>>, coeffs |-> <<>>, problem |-> NoProblem, eval |-> NoEval]

\* Line 40: size_t delta_start = epsi_start + N.
DeltaStart == SzAdd(epsi_start, N)

\* a_start without the - 1: the a block would begin one past its place.
AStartNoMinusOne == SzAdd(delta_start, N)

\* Line 41: size_t a_start = delta_start + N - 1.
AStart == SzSub(SzAdd(delta_start, N), 1)

\* Lines 16-41: the file-scope variables after static initialisation.
Init ==
  /\ N \in Horizons
  /\ dt \in TimeSteps
  /\ ref_cte = 0
  /\ ref_epsi = 0
  /\ ref_v = DefaultRefV
  /\ x_start = 0
  /\ y_start = SzAdd(x_start, N)
  /\ psi_start = SzAdd(y_start, N)
  /\ v_start = SzAdd(psi_start, N)
  /\ cte_start = SzAdd(v_start, N)
  /\ epsi_start = SzAdd(cte_start, N)
  /\ delta_start = DeltaStart
  /\ a_start = AStart
  /\ pc = "idle"
  /\ state = <<>>
  /\ coeffs = <<>>
  /\ problem = NoProblem
  /\ eval = NoEval
  /\ solution = NoSolution
  /\ ok = TRUE
  /\ result = <<>>
  /\ prev = NoCall
  /\ calls = 0

\* Solve is called and reaches CppAD::ipopt::solve, lines 162-281.
SolveCallsSolver ==
  /\ pc = "idle"
  /\ calls < MaxCalls
  /\ ~AllocFails(n_vars)
  /\ \E st \in States, cf \in Polynomials :
       /\ state' = st
       /\ coeffs' = cf
       /\ problem' = Problem(st, cf)
  /\ pc' = "solving"
  /\ calls' = calls + 1
  /\ ok' = TRUE
  /\ UNCHANGED <<config, eval, solution, result, prev>>

\* Solve is called and Dvector vars(n_vars) cannot be allocated, line 185.
SolveBadAlloc ==
  /\ pc = "idle"
  /\ calls < MaxCalls
  /\ AllocFails(n_vars)
  /\ \E st \in States, cf \in Polynomials :
       /\ state' = st
       /\ coeffs' = cf
  /\ pc' = "crashed"
  /\ calls' = calls + 1
  /\ UNCHANGED <<config, problem, eval, solution, ok, result, prev>>

\* What one call of the evaluator leaves behind.
Evaluated(junk, v, r) ==
  [called |-> TRUE, before |-> junk, vars |-> v, fg |-> r.fg, writes |-> r.writes,
   reads |-> r.reads, ub |-> r.ub, oob |-> r.oob, coeff_oob |-> r.coeff_oob,
   change_iters |-> r.change_iters]

\* The solver calls fg_eval(fg, vars) and the call returns.
EvaluatorReturns ==
  /\ pc = "solving"
  /\ \E v \in TrialPoints(Size(problem.vars)), junk \in JunkValues :
       \E r \in {FG_eval(FgBefore(Size(problem.constraints_lowerbound), junk), v,
                         problem.fg_eval, 0)} :
           /\ ~r.ub
           /\ r.coeff_oob = {}
           /\ eval' = Evaluated(junk, v, r)
  /\ UNCHANGED <<config, pc, state, coeffs, problem, solution, ok, result, prev, calls>>

\* The solver calls fg_eval(fg, vars) and the call reads past the end of vars:
\* the bounds check of the vector aborts, or the reads run on until one faults.
EvaluatorLeavesVars ==
  /\ pc = "solving"
  /\ \E v \in TrialPoints(Size(problem.vars)), junk \in JunkValues :
       \E r \in {FG_eval(FgBefore(Size(problem.constraints_lowerbound), junk), v,
                         problem.fg_eval, 0)} :
           /\ r.ub
           /\ eval' = Evaluated(junk, v, r)
  /\ pc' = "crashed"
  /\ UNCHANGED <<config, state, coeffs, problem, solution, ok, result, prev, calls>>

\* The solver calls fg_eval(fg, vars), the call reads past the end of coeffs
\* at line 131 of its first iteration and the bounds check of the vector
\* aborts (a build with assertions): fg is left as lines 58-105 wrote it.
EvaluatorLeavesCoeffsAborts ==
  /\ pc = "solving"
  /\ \E v \in TrialPoints(Size(problem.vars)), junk \in JunkValues :
       \E r \in {FG_eval(FgBefore(Size(problem.constraints_lowerbound), junk), v,
                         problem.fg_eval, 0)} :
           /\ ~r.ub
           /\ r.coeff_oob # {}
           /\ eval' = Evaluated(junk, v,
                 [UpToInitialConstraints(
                    FgBefore(Size(problem.constraints_lowerbound), junk), v)
                  EXCEPT !.coeff_oob = r.coeff_oob])
  /\ pc' = "crashed"
  /\ UNCHANGED <<config, state, coeffs, problem, solution, ok, result, prev, calls>>

\* The solver calls fg_eval(fg, vars), the call reads past the end of coeffs
\* and goes on with the double it finds there (a build without assertions).
EvaluatorLeavesCoeffsReturns ==
  /\ pc = "solving"
  /\ \E v \in TrialPoints(Size(problem.vars)), junk \in JunkValues, g \in GarbageValues :
       \E r \in {FG_eval(FgBefore(Size(problem.constraints_lowerbound), junk), v,
                         problem.fg_eval, g)} :
           /\ ~r.ub
           /\ r.coeff_oob # {}
           /\ eval' = Evaluated(junk, v, r)
  /\ UNCHANGED <<config, pc, state, coeffs, problem, solution, ok, result, prev, calls>>

\* CppAD::ipopt::solve returns, after at least the call of fg_eval that
\* records the operation sequence, and Solve returns: lines 283-304.  The
\* objective value of lines 287-288 is only printed.
SolveReturns ==
  /\ pc = "solving"
  /\ eval.called
  /\ \E status \in Statuses, x \in SolutionPoints(Size(problem.vars)) :
       /\ solution' = [status |-> status, x |-> x]
       /\ ok' = Ok(ok, status)
       /\ result' = Result(x)
  /\ pc' = "returned"
  /\ UNCHANGED <<config, state, coeffs, problem, eval, prev, calls>>

\* The caller has the result; the locals of the call are gone.
CallerContinues ==
  /\ pc = "returned"
  /\ prev' = [state |-> state, coeffs |-> coeffs, problem |-> problem, eval |-> eval]
  /\ pc' = "idle"
  /\ state' = <<>>
  /\ coeffs' = <<>>
  /\ problem' = NoProblem
  /\ eval' = NoEval
  /\ solution' = NoSolution
  /\ ok' = TRUE
  /\ result' = <<>>
  /\ UNCHANGED <<config, calls>>

Next ==
  \/ SolveCallsSolver
  \/ SolveBadAlloc
  \/ EvaluatorReturns
  \/ EvaluatorLeavesVars
  \/ EvaluatorLeavesCoeffsAborts
  \/ EvaluatorLeavesCoeffsReturns
  \/ SolveReturns
  \/ CallerContinues

Spec == Init /\ [][Next]_vars

----------------------------------------------------------------------------
(* What the claims speak of.                                               *)

\* The problem of the call in progress has been handed to the solver.
Handed == problem # NoProblem

\* The last call of the evaluator has returned to the solver.
EvaluatorReturned == eval.called /\ pc # "crashed"

\* The blocks of the layout for a horizon of N steps, written from N alone:
\* block k of the six state blocks (x, y, psi, v, cte, epsi), then delta, a.
StateBlock(k) == {k * N + t : t \in 0 .. N - 1}

DeltaBlock == {6 * N + t : t \in 0 .. N - 2}

ABlock == {7 * N - 1 + t : t \in 0 .. N - 2}

BlockNames == <<"x", "y", "psi", "v", "cte", "epsi">>

Starts == <<x_start, y_start, psi_start, v_start, cte_start, epsi_start>>

RECURSIVE SumOver(_, _)
SumOver(f, S) ==
  IF S = {} THEN 0
  ELSE LET i == CHOOSE j \in S : TRUE
       IN  f[i] + SumOver(f, S \ {i})

----------------------------------------------------------------------------
\* C1: when the solver returns a status other than success, the failure is
\* part of what Solve returns: the returned value differs from the one Solve
\* returns for a successful solve that ends at the same vector, so that the
\* caller can tell the two apart.
C1_FailureVisibleInResult ==
  (pc = "returned" /\ solution.status # "success")
    => result # Result(solution.x)

\* C2: a polynomial that has not 4 coefficients, dt <= 0 or N < 2 is rejected
\* before the solver is invoked: the problem is never handed to the solver
\* and no index outside the polynomial is read.
Malformed == pc # "idle" /\ (Size(coeffs) # 4 \/ dt[1] <= 0 \/ N < 2)

C2_MalformedRejected == Malformed => (~Handed /\ eval.coeff_oob = {})

\* C7: if N < 2, the loop of the actuation-smoothness cost executes zero
\* iterations and reads no element of vars, in or out of range.
C7_ShortHorizonNoSmoothness ==
  (N < 2 /\ eval.called) => (eval.change_iters = 0 /\ eval.oob = {})

\* C8: every call hands the solver the all-zero initial guess of length
\* n_vars, the configuration is the one static initialisation set, and a call
\* with the inputs of the call before it hands the solver the same problem and
\* an evaluator that returns the same fg at the same point.
ConfigAsInitialised ==
  /\ N \in Horizons /\ dt \in TimeSteps
  /\ ref_cte = 0 /\ ref_epsi = 0 /\ ref_v = DefaultRefV
  /\ Starts = [k \in 1 .. 6 |-> ((k - 1) * N) % SizeMod]
  /\ delta_start = (6 * N) % SizeMod
  /\ a_start = (7 * N - 1) % SizeMod

C8_CallsIndependent ==
  /\ ConfigAsInitialised
  /\ Handed => problem.vars = [i \in 0 .. 6 * N + 2 * (N - 1) - 1 |-> 0]
  /\ (Handed /\ prev # NoCall /\ prev.state = state /\ prev.coeffs = coeffs)
       => /\ prev.problem = problem
          /\ (EvaluatorReturned /\ eval.vars = prev.eval.vars) => eval.fg = prev.eval.fg

----------------------------------------------------------------------------
\* C3: for N >= 2 the offsets are those of six state blocks of length N in
\* the order x, y, psi, v, cte, epsi, then a delta block and an a block of
\* length N - 1; every index of 0 .. N*6 + (N-1)*2 - 1 lies in exactly one
\* block; the evaluator reads each block at these offsets and Solve bounds
\* the actuator blocks at these offsets.
BlockAt(name) ==
  IF name = "delta" THEN DeltaBlock
  ELSE IF name = "a" THEN ABlock
  ELSE StateBlock((CHOOSE k \in 1 .. 6 : BlockNames[k] = name) - 1)

AllBlocks == {StateBlock(k) : k \in 0 .. 5} \cup {DeltaBlock, ABlock}

C3_LayoutPartition ==
  N >= 2 =>
    /\ \A k \in 1 .. 6 : StateBlock(k - 1) = Starts[k] .. Starts[k] + N - 1
    /\ DeltaBlock = delta_start .. delta_start + N - 2
    /\ ABlock = a_start .. a_start + N - 2
    /\ \A i \in 0 .. N * 6 + (N - 1) * 2 - 1 : Cardinality({B \in AllBlocks : i \in B}) = 1
    /\ UNION AllBlocks = 0 .. N * 6 + (N - 1) * 2 - 1
    /\ EvaluatorReturned =>
         /\ \A r \in eval.reads : r[2] \in BlockAt(r[1])
         /\ {r[2] : r \in eval.reads} = UNION AllBlocks
    /\ Handed =>
         /\ \A i \in DeltaBlock : problem.vars_upperbound[i] = max_radians
         /\ \A i \in ABlock : problem.vars_upperbound[i] = One(1)

C3_Witness ==
  /\ N = DefaultN
  /\ pc = "solving"
  /\ EvaluatorReturned
  /\ <<"a", 8 * N - 3>> \in eval.reads

\* C4: when the problem is handed to the solver, the constraint bounds have
\* length N*6, lower and upper bound are equal everywhere, and they are 0
\* except at x_start, y_start, psi_start, v_start, cte_start, epsi_start,
\* where they are the components x, y, psi, v, cte, epsi of the state.
C4_ConstraintBounds ==
  Handed =>
    LET lo == problem.constraints_lowerbound
        up == problem.constraints_upperbound
    IN  /\ DOMAIN lo = 0 .. N * 6 - 1
        /\ DOMAIN up = 0 .. N * 6 - 1
        /\ \A i \in 0 .. N * 6 - 1 :
             /\ lo[i] = up[i]
             /\ (\A k \in 1 .. 6 : i # Starts[k]) => lo[i] = 0
        /\ \A k \in 1 .. 6 : lo[Starts[k]] = state[k - 1] /\ up[Starts[k]] = state[k - 1]

C4_Witness ==
  /\ pc = "solving"
  /\ N = DefaultN
  /\ problem.constraints_upperbound[epsi_start] = 6
  /\ problem.constraints_lowerbound[cte_start] = 5

\* C5: when the problem is handed to the solver, each of the n_vars indices
\* has had its bounds assigned exactly once: [-max float, +max float] in the
\* state blocks, [-25 degrees, +25 degrees] in radians in the delta block and
\* [-1, 1] in the a block.
C5_VariableBounds ==
  Handed =>
    LET n == N * 6 + (N - 1) * 2
        lo == problem.vars_lowerbound
        up == problem.vars_upperbound
    IN  /\ DOMAIN lo = 0 .. n - 1
        /\ DOMAIN up = 0 .. n - 1
        /\ \A i \in 0 .. n - 1 : problem.assigned[i] = 1
        /\ \A k \in 0 .. 5 : \A i \in StateBlock(k) :
             lo[i] = FloatMax(-1) /\ up[i] = FloatMax(1)
        /\ \A i \in DeltaBlock :
             lo[i] = [unit |-> "pi/180", k |-> -25] /\ up[i] = [unit |-> "pi/180", k |-> 25]
        /\ \A i \in ABlock : lo[i] = One(-1) /\ up[i] = One(1)

C5_Witness ==
  /\ pc = "solving"
  /\ N = DefaultN
  /\ problem.vars_lowerbound[6 * N] = Neg(max_radians)
  /\ problem.vars_upperbound[8 * N - 3] = One(1)

\* C6: what Solve returns for the solution vector x is x at t = 0 of the
\* delta block, x at t = 0 of the a block, and then the N - 1 pairs
\* (x[t], y[t]) of the x and y blocks for t = 1 .. N-1 in increasing t.
C6_ResultExtraction ==
  pc = "returned" =>
    LET x == solution.x
    IN  /\ Len(result) = 2 + 2 * (N - 1)
        /\ result[1] = x[6 * N]
        /\ result[2] = x[7 * N - 1]
        /\ \A t \in 1 .. N - 1 :
             /\ result[2 * t + 1] = x[t]
             /\ result[2 * t + 2] = x[N + t]

C6_Witness ==
  /\ pc = "returned"
  /\ N = DefaultN
  /\ solution.status = "success"
  /\ result[1] = 61
  /\ result[2 * N] = 20

----------------------------------------------------------------------------
\* C9: for N >= 2, when the evaluator returns, fg[0] is the sum of
\* 1500*(cte[t]-ref_cte)^2 + 2000*(epsi[t]-ref_epsi)^2 + (v[t]-ref_v)^2 over
\* t in [0, N), of 10*delta[t]^2 + 10*a[t]^2 over t in [0, N-1) and of
\* 1000*(delta[t+1]-delta[t])^2 + 10*(a[t+1]-a[t])^2 over t in [0, N-2),
\* whatever fg[0] held before the call.
CostOf(p) ==
  LET v(t) == p[3 * N + t]
      cte(t) == p[4 * N + t]
      epsi(t) == p[5 * N + t]
      delta(t) == p[6 * N + t]
      a(t) == p[7 * N - 1 + t]
  IN  SumOver([t \in 0 .. N - 1 |->
                 1500 * (cte(t) - ref_cte) * (cte(t) - ref_cte)
                 + 2000 * (epsi(t) - ref_epsi) * (epsi(t) - ref_epsi)
                 + 1 * (v(t) - ref_v) * (v(t) - ref_v)], 0 .. N - 1)
      + SumOver([t \in 0 .. N - 2 |->
                   10 * delta(t) * delta(t) + 10 * a(t) * a(t)], 0 .. N - 2)
      + SumOver([t \in 0 .. N - 3 |->
                   1000 * (delta(t + 1) - delta(t)) * (delta(t + 1) - delta(t))
                   + 10 * (a(t + 1) - a(t)) * (a(t + 1) - a(t))], 0 .. N - 3)

C9_CostIsTheWeightedSum ==
  (N >= 2 /\ EvaluatorReturned) => eval.fg[0] = CostOf(eval.vars)

C9_Witness ==
  /\ EvaluatorReturned
  /\ N = DefaultN
  /\ eval.before # 0
  /\ eval.vars[6 * N + 1] # eval.vars[6 * N]
  /\ eval.fg[0] > eval.before

\* C10: for N >= 2, when the evaluator returns, it has assigned each of the
\* N*6 constraint entries fg[1 + offset + t] exactly once; the entry of a
\* state block at t = 0 is that block's variable at t = 0; the entry at t in
\* [1, N) is the block's variable at t minus an expression of the state
\* variables at t-1, delta[t-1] and a[t-1] alone; every index of vars read
\* lies in [0, n_vars); and the heading entry has the value
\* psi[t] - (psi[t-1] - v[t-1]/Lf*delta[t-1]*dt).
PreviousStep(t) ==
  {k * N + t - 1 : k \in 0 .. 5} \cup {6 * N + t - 1, 7 * N - 1 + t - 1}

HeadingResidual(p, t) ==
  LET psi1 == Rat(p[2 * N + t])
      psi0 == Rat(p[2 * N + t - 1])
      v0 == Rat(p[3 * N + t - 1])
      delta0 == Rat(p[6 * N + t - 1])
  IN  RatSub(psi1, RatSub(psi0, RatMul(RatMul(RatDiv(v0, <<267, 100>>), delta0), dt)))

====
